---- MODULE Spec2Model ----
(***************************************************************************)
(* stc8isp.py - programming tool for STC8G/8H microcontrollers.            *)
(* The Programmer class (frame codec, handshake, baud negotiation, erase   *)
(* and write) and the _main command-line flow, as a state machine.         *)
(*                                                                         *)
(* Spec     : one run of _main against a simulated device.                 *)
(* SpecUnit : the Programmer methods called one at a time, each on a fresh *)
(*            transport, with inputs drawn from bounded sets.              *)
(***************************************************************************)
EXTENDS Integers, Sequences, FiniteSets, TLC

VARIABLES
    pc,          \* position in _main ("unit" in SpecUnit)
    args,        \* parsed command line: [erase, flash]
    is_open,     \* Serial.is_open
    baudrate,    \* Serial.baudrate
    timeout,     \* Serial.timeout, in hundredths of a second (1 = 0.01 s, 100 = 1 s)
    rx,          \* bytes the transport holds for reading (GAP: a read timeout elapses here)
    tx,          \* the blocks written to the transport, in order
    waitcounter, \* identify's loop counter
    reply,       \* identify's local variable reply
    self,        \* the session attributes identify sets
    err,         \* message of the exception raised, "" when none
    exitcode,    \* sys.exit status, Running while the process lives
    sawPrefix,   \* a PREFIX byte was read as the first byte of a frame
    log          \* the method calls made so far: [op, input, given, ok, err, ntx]

vars == <<pc, args, is_open, baudrate, timeout, rx, tx, waitcounter, reply,
          self, err, exitcode, sawPrefix, log>>

----------------------------------------------------------------------------
(* Bounds of the model *)

\* longest payload whose bytes are enumerated one by one
MaxLen == 2

----------------------------------------------------------------------------
(* Program constants *)

STC_BAUD           == 115200
STC_WAIT           == 10
STC_FUSER          == 24000000
STC_SYNCH          == \H7f
STC_PREFIX         == \H46
STC_BREAK          == \H5a
STC_SUFFIX         == \H16
STC_TX_CODE        == \H6a
STC_RX_CODE        == \H68
STC_CMD_BAUD_SET   == \H01
STC_CMD_BAUD_CHECK == \H05
STC_CMD_ERASE      == \H03
STC_CMD_WRITE      == \H22

\* timeout = 0.01 of Serial's constructor, and timeout = 1 of receive
TIMEOUT_SHORT == 1
TIMEOUT_LONG  == 100

\* Python's None, for values that are integers or sequences otherwise
None    == <<"None">>
Unset   == 0 - 1
Running == 0 - 1
\* in a stream: the transport's read timeout elapses before the next byte arrives
GAP     == 0 - 2

----------------------------------------------------------------------------
(* Integer and byte helpers *)

Min(a, b) == IF a < b THEN a ELSE b

\* b ^ 0xff for a byte b
Xor255(b) == 255 - b

\* sum of d[lo..hi]; the source adds the bytes left to right, the halving only
\* keeps the evaluation depth logarithmic (integer addition is associative)
RECURSIVE SumRange(_, _, _)
SumRange(d, lo, hi) ==
    IF lo > hi THEN 0
    ELSE IF lo = hi THEN d[lo]
    ELSE LET mid == (lo + hi) \div 2
         IN  SumRange(d, lo, mid) + SumRange(d, mid + 1, hi)

Sum(d) == SumRange(d, 1, Len(d))

\* int.to_bytes(2, byteorder='big') succeeds only for 0 <= v <= 65535
Fits16(v) == v >= 0 /\ v <= 65535
ToBytes2(v) == <<v \div 256, v % 256>>

\* int.from_bytes(b, byteorder='big'), b of any length (0 for the empty sequence)
RECURSIVE FromBytes(_)
FromBytes(b) ==
    IF Len(b) = 0 THEN 0
    ELSE 256 * FromBytes(SubSeq(b, 1, Len(b) - 1)) + b[Len(b)]

\* n copies of byte b
Fill(n, b) == [i \in 1..n |-> b]

----------------------------------------------------------------------------
(* Transport: Serial.read *)

\* index of the first GAP among s[1..m], 0 when there is none
FirstGap(s, m) ==
    IF \A i \in 1..m : s[i] # GAP THEN 0
    ELSE CHOOSE i \in 1..m : s[i] = GAP /\ \A j \in 1..(i - 1) : s[j] # GAP

\* a read that asks for m <= Len(s) bytes, the first GAP among them at g
ReadTo(s, m, g) ==
    IF m = 0 THEN [got |-> <<>>, rest |-> s]
    ELSE IF g = 0 THEN [got |-> SubSeq(s, 1, m), rest |-> SubSeq(s, m + 1, Len(s))]
    ELSE [got |-> SubSeq(s, 1, g - 1), rest |-> SubSeq(s, g + 1, Len(s))]

\* read(n): up to n bytes, fewer when the timeout elapses (a GAP, which the
\* read consumes) or the stream ends; nothing for n <= 0
Read(s, n) ==
    ReadTo(s, Min(IF n < 0 THEN 0 ELSE n, Len(s)),
           FirstGap(s, Min(IF n < 0 THEN 0 ELSE n, Len(s))))

----------------------------------------------------------------------------
(* Programmer.receive *)

E_PREFIX   == "Invalid data prefix from MCU"
E_CHECKSUM == "Invalid data checksum from MCU"
E_SUFFIX   == "Invalid data suffix from MCU"
E_INDEX    == "IndexError: index out of range"
E_OVERFLOW == "OverflowError: int too big to convert"
E_RESPONSE == "Invalid response from MCU"

\* the parity receive holds after its loop, before masking
RxParity(size, data) == STC_RX_CODE + (size \div 256) + (size % 256) + Sum(data)

\* what receive() does to the caller: kind "none" (returns None), "data" (returns
\* data) or "error" (raises err); rest is what the transport still holds
Returned(kind, data, e, rest, tmo, prefix) ==
    [kind |-> kind, data |-> data, err |-> e, rest |-> rest, timeout |-> tmo,
     prefix |-> prefix]

Raised(e, rest) == Returned("error", <<>>, e, rest, TIMEOUT_LONG, TRUE)

\* receiveCheck comparing the parity unreduced ("parity != check")
receiveCheckUnmasked(size, data, check, r6) ==
    IF Len(r6.got) = 0 THEN Raised(E_INDEX, r6.rest)
    ELSE IF RxParity(size, data) # check THEN Raised(E_CHECKSUM, r6.rest)
    ELSE IF r6.got[1] # STC_SUFFIX THEN Raised(E_SUFFIX, r6.rest)
    ELSE Returned("data", data, "", r6.rest, TIMEOUT_LONG, TRUE)

\* receiveCheck comparing only the low byte of the checksum
receiveCheckLowByte(size, data, check, r6) ==
    IF Len(r6.got) = 0 THEN Raised(E_INDEX, r6.rest)
    ELSE IF (RxParity(size, data) % 256) # (check % 256) THEN Raised(E_CHECKSUM, r6.rest)
    ELSE IF r6.got[1] # STC_SUFFIX THEN Raised(E_SUFFIX, r6.rest)
    ELSE Returned("data", data, "", r6.rest, TIMEOUT_LONG, TRUE)

\* the checks after the last read: suffix = self.read(1)[0], parity, suffix
receiveCheck(size, data, check, r6) ==
    IF Len(r6.got) = 0 THEN Raised(E_INDEX, r6.rest)
    ELSE IF (RxParity(size, data) % 65536) # check THEN Raised(E_CHECKSUM, r6.rest)
    ELSE IF r6.got[1] # STC_SUFFIX THEN Raised(E_SUFFIX, r6.rest)
    ELSE Returned("data", data, "", r6.rest, TIMEOUT_LONG, TRUE)

\* check = read(2), suffix = read(1)
receiveTail(size, data, r5) ==
    receiveCheck(size, data, FromBytes(r5.got), Read(r5.rest, 1))

\* data = read(size - 6)
receiveData(size, r4) == receiveTail(size, r4.got, Read(r4.rest, 2))

\* size = read(2)
receiveSize(r3) == receiveData(FromBytes(r3.got), Read(r3.rest, FromBytes(r3.got) - 6))

\* after the PREFIX byte: timeout = 1, reply = read(2)
receiveHeader(r2) ==
    IF Len(r2.got) # 2 \/ r2.got[1] # Xor255(STC_PREFIX) \/ r2.got[2] # STC_RX_CODE
    THEN Raised(E_PREFIX, r2.rest)
    ELSE receiveSize(Read(r2.rest, 2))

\* receive raising the timeout before it looks at the first byte
receiveFirstEager(r1, tmo) ==
    IF Len(r1.got) = 0 \/ r1.got[1] # STC_PREFIX
    THEN Returned("none", <<>>, "", r1.rest, TIMEOUT_LONG, FALSE)
    ELSE receiveHeader(Read(r1.rest, 2))

\* reply = read(1)
receiveFirst(r1, tmo) ==
    IF Len(r1.got) = 0 \/ r1.got[1] # STC_PREFIX
    THEN Returned("none", <<>>, "", r1.rest, tmo, FALSE)
    ELSE receiveHeader(Read(r1.rest, 2))

\* receive() on a transport holding stream s with read timeout tmo
receive(s, tmo) == receiveFirst(Read(s, 1), tmo)

----------------------------------------------------------------------------
(* Programmer.transmit *)

TxSize(data)   == Len(data) + 6
\* the parity transmit holds after its loop; it is not reduced before to_bytes
TxParity(data) == STC_TX_CODE + (TxSize(data) \div 256) + (TxSize(data) % 256) + Sum(data)

\* the block transmit builds (when both to_bytes calls succeed)
TxBlock(data, parity) ==
    <<STC_PREFIX, Xor255(STC_PREFIX), STC_TX_CODE>> \o ToBytes2(TxSize(data))
        \o data \o ToBytes2(parity) \o <<STC_SUFFIX>>

\* transmit sending the block again and giving up when the first answer is no
\* usable frame
transmitReplyRetrying(block, r) ==
    IF r.kind = "data" /\ Len(r.data) > 0 THEN [written |-> <<block>>] @@ r
    ELSE [written |-> <<block, block>>]
             @@ Returned("error", <<>>, E_RESPONSE, receive(r.rest, TIMEOUT_LONG).rest,
                         TIMEOUT_LONG, TRUE)

\* "if reply is None or len(reply) == 0: raise", r what receive() did
transmitReply(block, r) ==
    IF r.kind = "error" THEN [written |-> <<block>>] @@ r
    ELSE IF r.kind = "none" \/ Len(r.data) = 0
    THEN [written |-> <<block>>] @@ Returned("error", <<>>, E_RESPONSE, r.rest, r.timeout,
                                             r.prefix)
    ELSE [written |-> <<block>>] @@ r

\* a call that raises e before it writes anything
RaisedUnwritten(e, pending, tmo) ==
    [written |-> <<>>] @@ Returned("error", <<>>, e, pending, tmo, FALSE)

\* transmit(data) once its loop has left parity
transmitBlock(data, parity, pending, s, tmo) ==
    IF ~Fits16(TxSize(data)) \/ ~Fits16(parity)
    THEN RaisedUnwritten(E_OVERFLOW, pending, tmo)
    ELSE transmitReply(TxBlock(data, parity), receive(pending \o s, tmo))

\* transmit(data) when the device answers the written block with stream s (appended
\* to what the transport already holds, pending): written is <<>> or <<block>>
transmit(data, pending, s, tmo) == transmitBlock(data, TxParity(data), pending, s, tmo)

----------------------------------------------------------------------------
(* Programmer.setbaud, checkbaud, erase, writeflash *)

E_BAUD_SET   == "Failed to set BAUD rate"
E_BAUD_CHECK == "BAUD rate check failed"
E_ERASE      == "Failed to erase flash"
E_MEMORY     == "Not enough memory"
E_WRITE      == "Failed to write to flash"

\* "if reply[0] != expected: raise Exception(e)" on what transmit returned
Expect(r, expected, e) ==
    IF r.kind = "error" THEN r
    ELSE IF r.data[1] # expected THEN [r EXCEPT !.kind = "error", !.err = e]
    ELSE [r EXCEPT !.kind = "ok"]

BaudCount == 65536 - (STC_FUSER \div (4 * STC_BAUD))

SetBaudBlock(fosc) ==
    <<STC_CMD_BAUD_SET, fosc % 256, \H40>> \o ToBytes2(BaudCount) \o <<\H00, \H00, \H97>>

setbaud(fosc, pending, s, tmo) ==
    Expect(transmit(SetBaudBlock(fosc), pending, s, tmo), STC_CMD_BAUD_SET, E_BAUD_SET)

\* the version test off by one ("chipversion <= 0x72")
CheckBaudBlockOffByOne(chipversion) ==
    IF chipversion <= \H72
    THEN <<STC_CMD_BAUD_CHECK>>
    ELSE <<STC_CMD_BAUD_CHECK, 0, 0, STC_BREAK, Xor255(STC_BREAK)>>

CheckBaudBlock(chipversion) ==
    IF chipversion < \H72
    THEN <<STC_CMD_BAUD_CHECK>>
    ELSE <<STC_CMD_BAUD_CHECK, 0, 0, STC_BREAK, Xor255(STC_BREAK)>>

checkbaud(chipversion, pending, s, tmo) ==
    Expect(transmit(CheckBaudBlock(chipversion), pending, s, tmo),
           STC_CMD_BAUD_CHECK, E_BAUD_CHECK)

EraseBlock == <<STC_CMD_ERASE, 0, 0, STC_BREAK, Xor255(STC_BREAK)>>

erase(pending, s, tmo) ==
    Expect(transmit(EraseBlock, pending, s, tmo), STC_CMD_ERASE, E_ERASE)

\* the capacity check off by one ("len(data) >= ...")
NotEnoughMemoryOffByOne(flash_size, addr, data) == Len(data) >= (flash_size - addr)

\* "len(data) > (self.flash_size - addr)"
NotEnoughMemory(flash_size, addr, data) == Len(data) > (flash_size - addr)

WriteBlock(addr, data) ==
    <<STC_CMD_WRITE>> \o ToBytes2(addr) \o <<STC_BREAK, Xor255(STC_BREAK)>> \o data

\* writeflash looking for the request code in the reply ("reply[0] != STC_CMD_WRITE")
writeflashExpectsEcho(flash_size, addr, data, pending, s, tmo) ==
    IF NotEnoughMemory(flash_size, addr, data)
    THEN RaisedUnwritten(E_MEMORY, pending, tmo)
    ELSE IF ~Fits16(addr)
    THEN RaisedUnwritten(E_OVERFLOW, pending, tmo)
    ELSE Expect(transmit(WriteBlock(addr, data), pending, s, tmo), STC_CMD_WRITE, E_WRITE)

writeflash(flash_size, addr, data, pending, s, tmo) ==
    IF NotEnoughMemory(flash_size, addr, data)
    THEN RaisedUnwritten(E_MEMORY, pending, tmo)
    ELSE IF ~Fits16(addr)
    THEN RaisedUnwritten(E_OVERFLOW, pending, tmo)
    ELSE Expect(transmit(WriteBlock(addr, data), pending, s, tmo), \H02, E_WRITE)

----------------------------------------------------------------------------
(* The wire format of spec section 6, and what a device may send *)

\* CHECKSUM = (CODE + SIZE_HI + SIZE_LO + sum(PAYLOAD)) mod 65536, SIZE = len(PAYLOAD) + 6
Checksum(code, payload) ==
    (code + ((Len(payload) + 6) \div 256) + ((Len(payload) + 6) % 256) + Sum(payload)) % 65536

\* [PREFIX][PREFIX^0xFF][CODE][SIZE_HI][SIZE_LO][...PAYLOAD][CHK_HI][CHK_LO][SUFFIX]
Framed(code, size, payload, checksum) ==
    <<\H46, \HB9, code, size \div 256, size % 256>>
        \o payload \o <<checksum \div 256, checksum % 256, \H16>>

Encode(code, payload) == Framed(code, Len(payload) + 6, payload, Checksum(code, payload))

\* v with bit k (1 = least significant) flipped
RECURSIVE Pow2(_)
Pow2(k) == IF k = 0 THEN 1 ELSE 2 * Pow2(k - 1)
FlipBit(v, k) ==
    IF (v \div Pow2(k - 1)) % 2 = 1 THEN v - Pow2(k - 1) ELSE v + Pow2(k - 1)

InsertAt(f, k, x) == SubSeq(f, 1, k - 1) \o <<x>> \o SubSeq(f, k, Len(f))

NoDamage == [m |-> "none", k |-> 0]

\* ways a frame is damaged on the line ("undersize": an empty frame declaring a
\* size below the 6 bytes of its own fields; "gap": a read timeout before byte k)
Damage ==
    [m : {"none", "suffix", "code", "cprefix", "noprefix", "silence", "undersize"}, k : {0}]
        \cup [m : {"flip"}, k : 1..16]
        \cup [m : {"trunc"}, k : 1..3]
        \cup [m : {"gap"}, k : {1, 2, 4, 6, 7}]

\* frame f, of at least 8 bytes, damaged as d says
WithChecksum(f, c) == [f EXCEPT ![Len(f) - 2] = c \div 256, ![Len(f) - 1] = c % 256]

Damaged(f, d) ==
    CASE d.m = "none"     -> f
      [] d.m = "suffix"   -> [f EXCEPT ![Len(f)] = \H17]
      [] d.m = "code"     -> [f EXCEPT ![3] = STC_TX_CODE]
      [] d.m = "cprefix"  -> [f EXCEPT ![2] = \H46]
      [] d.m = "noprefix" -> [f EXCEPT ![1] = \H00]
      [] d.m = "silence"  -> <<>>
      [] d.m = "undersize" -> Framed(STC_RX_CODE, 5, <<>>, STC_RX_CODE + 5)
      [] d.m = "flip"     ->
            WithChecksum(f, FlipBit(256 * f[Len(f) - 2] + f[Len(f) - 1], d.k))
      [] d.m = "trunc"    -> SubSeq(f, 1, Len(f) - d.k)
      [] d.m = "gap"      -> InsertAt(f, d.k, GAP)

\* sample byte values: zero, the PREFIX marker, all ones
ByteSamples == {\H00, \H46, \HFF}

ShortPayloads == UNION {[1..n -> ByteSamples] : n \in 0..MaxLen}

\* payloads whose byte sum is around and beyond 16 bits: the un-reduced transmit
\* parity of the third is 65535 and of the fourth 65536
LongPayloads ==
    {Fill(257, \H01), Fill(257, \HFF),
     Fill(256, \HFF) \o <<141>>, Fill(256, \HFF) \o <<142>>}

Payloads == ShortPayloads \cup LongPayloads

\* a payload whose bytes after the first read as a checksum field and a SUFFIX
StallPayloads == {<<\H00, \H00, \H72, \H16>>}

\* what a device answers to a command: a frame whose payload starts with one of
\* the codes the commands look for, possibly damaged, or an empty-payload frame
ReplyPayloads == {<<c>> : c \in {\H01, \H02, \H03, \H05, \H22}} \cup {<<>>, <<\H02, \H54>>}

\* damage a command reply is given
ReplyDamage ==
    [m : {"suffix", "code", "silence"}, k : {0}]
        \cup {[m |-> "flip", k |-> 9], [m |-> "trunc", k |-> 1], [m |-> "gap", k |-> 6]}

Replies ==
    {Encode(STC_RX_CODE, p) : p \in ReplyPayloads}
        \cup {Damaged(Encode(STC_RX_CODE, <<\H02>>), d) : d \in ReplyDamage}

\* an answer that a second attempt would get through: a frame with a damaged
\* suffix, or a byte of noise, and then the intact frame
SecondChances ==
    {Damaged(Encode(STC_RX_CODE, <<c>>), [m |-> "suffix", k |-> 0])
         \o Encode(STC_RX_CODE, <<c>>) : c \in {\H01, \H02, \H03, \H05}}
        \cup {<<\H00>> \o Encode(STC_RX_CODE, <<c>>) : c \in {\H01, \H02, \H03, \H05}}

----------------------------------------------------------------------------
(* Device definitions *)

DEVICES == <<
    [name |-> "STC8H1K16",        id |-> \HF721, flash_size |-> 16384],
    [name |-> "STC8H1K20",        id |-> \HF722, flash_size |-> 20480],
    [name |-> "STC8H1K24",        id |-> \HF723, flash_size |-> 24576],
    [name |-> "STC8H1K28",        id |-> \HF724, flash_size |-> 28672],
    [name |-> "STC8H1K33",        id |-> \HF725, flash_size |-> 33792],
    [name |-> "STC8H1K02",        id |-> \HF731, flash_size |->  2048],
    [name |-> "STC8H1K04",        id |-> \HF732, flash_size |->  4096],
    [name |-> "STC8H1K06",        id |-> \HF733, flash_size |->  6144],
    [name |-> "STC8H1K08",        id |-> \HF734, flash_size |->  8192],
    [name |-> "STC8H1K10",        id |-> \HF735, flash_size |-> 10240],
    [name |-> "STC8H1K12",        id |-> \HF736, flash_size |-> 12288],
    [name |-> "STC8H1K17",        id |-> \HF737, flash_size |-> 17408],
    [name |-> "STC8H3K16S4",      id |-> \HF741, flash_size |-> 16384],
    [name |-> "STC8H3K32S4",      id |-> \HF742, flash_size |-> 32768],
    [name |-> "STC8H3K60S4",      id |-> \HF743, flash_size |-> 61440],
    [name |-> "STC8H3K64S4",      id |-> \HF744, flash_size |-> 65024],
    [name |-> "STC8H3K48S4",      id |-> \HF745, flash_size |-> 49152],
    [name |-> "STC8H3K16S2",      id |-> \HF749, flash_size |-> 16384],
    [name |-> "STC8H3K32S2",      id |-> \HF74A, flash_size |-> 32768],
    [name |-> "STC8H3K60S2",      id |-> \HF74B, flash_size |-> 61440],
    [name |-> "STC8H3K64S2",      id |-> \HF74C, flash_size |-> 65024],
    [name |-> "STC8H3K48S2",      id |-> \HF74D, flash_size |-> 49152],
    [name |-> "STC8G1K02-20/16P", id |-> \HF751, flash_size |->  2048],
    [name |-> "STC8G1K04-20/16P", id |-> \HF752, flash_size |->  4096],
    [name |-> "STC8G1K06-20/16P", id |-> \HF753, flash_size |->  6144],
    [name |-> "STC8G1K08-20/16P", id |-> \HF754, flash_size |->  8192],
    [name |-> "STC8G1K10-20/16P", id |-> \HF755, flash_size |-> 10240],
    [name |-> "STC8G1K12-20/16P", id |-> \HF756, flash_size |-> 12288],
    [name |-> "STC8G1K17-20/16P", id |-> \HF757, flash_size |-> 17408],
    [name |-> "STC8G2K16S4",      id |-> \HF761, flash_size |-> 16384],
    [name |-> "STC8G2K32S4",      id |-> \HF762, flash_size |-> 32768],
    [name |-> "STC8G2K60S4",      id |-> \HF763, flash_size |-> 61440],
    [name |-> "STC8G2K64S4",      id |-> \HF764, flash_size |-> 65024],
    [name |-> "STC8G2K48S4",      id |-> \HF765, flash_size |-> 49152],
    [name |-> "STC8G2K16S2",      id |-> \HF769, flash_size |-> 16384],
    [name |-> "STC8G2K32S2",      id |-> \HF76A, flash_size |-> 32768],
    [name |-> "STC8G2K60S2",      id |-> \HF76B, flash_size |-> 61440],
    [name |-> "STC8G2K64S2",      id |-> \HF76C, flash_size |-> 65024],
    [name |-> "STC8G2K48S2",      id |-> \HF76D, flash_size |-> 49152],
    [name |-> "STC8G1K02T",       id |-> \HF771, flash_size |->  2048],
    [name |-> "STC8G1K04T",       id |-> \HF772, flash_size |->  4096],
    [name |-> "STC8G1K06T",       id |-> \HF773, flash_size |->  6144],
    [name |-> "STC8G1K08T",       id |-> \HF774, flash_size |->  8192],
    [name |-> "STC8G1K10T",       id |-> \HF775, flash_size |-> 10240],
    [name |-> "STC8G1K12T",       id |-> \HF776, flash_size |-> 12288],
    [name |-> "STC8G1K17T",       id |-> \HF777, flash_size |-> 17408],
    [name |-> "STC8H8K16U",       id |-> \HF781, flash_size |-> 16384],
    [name |-> "STC8H8K32U",       id |-> \HF782, flash_size |-> 32768],
    [name |-> "STC8H8K60U",       id |-> \HF783, flash_size |-> 61440],
    [name |-> "STC8H8K64U",       id |-> \HF784, flash_size |-> 65024],
    [name |-> "STC8H8K48U",       id |-> \HF785, flash_size |-> 49152],
    [name |-> "STC8G1K02A-8P",    id |-> \HF791, flash_size |->  2048],
    [name |-> "STC8G1K04A-8P",    id |-> \HF792, flash_size |->  4096],
    [name |-> "STC8G1K06A-8P",    id |-> \HF793, flash_size |->  6144],
    [name |-> "STC8G1K08A-8P",    id |-> \HF794, flash_size |->  8192],
    [name |-> "STC8G1K10A-8P",    id |-> \HF795, flash_size |-> 10240],
    [name |-> "STC8G1K12A-8P",    id |-> \HF796, flash_size |-> 12288],
    [name |-> "STC8G1K17A-8P",    id |-> \HF797, flash_size |-> 17408],
    [name |-> "STC8G1K02-8P",     id |-> \HF7A1, flash_size |->  2048],
    [name |-> "STC8G1K04-8P",     id |-> \HF7A2, flash_size |->  4096],
    [name |-> "STC8G1K06-8P",     id |-> \HF7A3, flash_size |->  6144],
    [name |-> "STC8G1K08-8P",     id |-> \HF7A4, flash_size |->  8192],
    [name |-> "STC8G1K10-8P",     id |-> \HF7A5, flash_size |-> 10240],
    [name |-> "STC8G1K12-8P",     id |-> \HF7A6, flash_size |-> 12288],
    [name |-> "STC8G1K17-8P",     id |-> \HF7A7, flash_size |-> 17408]
>>

----------------------------------------------------------------------------
(* Variables a step leaves alone, and the record of a call *)

NoArgs == [erase |-> FALSE, flash |-> None, readable |-> TRUE]

NoSelf == [chipid |-> Unset, chipname |-> "", flash_size |-> Unset, chipversion |-> Unset,
           chipstepping |-> Unset, chipminor |-> Unset, fosc |-> Unset]

\* one method call: its arguments, what the device sent in answer, the outcome
\* (kind "ok" or "data": returned; "none": returned None; "error": raised err) and
\* the number of blocks it wrote
Call(op, data, addr, tag, stream, r) ==
    [op |-> op, data |-> data, addr |-> addr, tag |-> tag, stream |-> stream,
     kind |-> r.kind, out |-> r.data, err |-> r.err, ntx |-> Len(r.written)]

----------------------------------------------------------------------------
(* SpecUnit: each method called once on a session and a fresh transport *)

\* the sessions the methods are called on: a catalog entry and a version byte
UnitDevices  == {d \in 1..Len(DEVICES) : DEVICES[d].id \in {\HF751, \HF752, \HF721}}
UnitVersions == {\H00, \H71, \H72, \HFF}

Session(d, v) ==
    [chipid |-> DEVICES[d].id, chipname |-> DEVICES[d].name,
     flash_size |-> DEVICES[d].flash_size, chipversion |-> v,
     chipstepping |-> \H41, chipminor |-> \H03, fosc |-> 24000000]

\* addresses and images around the capacities of the sessions
UnitAddrs == {0, 1, 2046, 2047, 2048, 3840, 16383, 65536}
UnitData  == ShortPayloads \cup {Fill(256, \H01), Fill(257, \HFF)}

InitUnit ==
    /\ pc = "unit"
    /\ args = NoArgs
    /\ is_open = TRUE
    /\ baudrate = STC_BAUD
    /\ timeout = TIMEOUT_SHORT
    /\ rx = <<>>
    /\ tx = <<>>
    /\ waitcounter = 0
    /\ reply = None
    /\ self = NoSelf
    /\ err = ""
    /\ exitcode = Running
    /\ sawPrefix = FALSE
    /\ log = <<>>

\* the state after call op(data, addr), answered with stream s, did r on session s0
\* and a fresh transport
UnitDone(op, data, addr, tag, s, s0, r) ==
    /\ pc' = "returned"
    /\ self' = s0
    /\ tx' = r.written
    /\ rx' = r.rest
    /\ timeout' = r.timeout
    /\ err' = r.err
    /\ sawPrefix' = r.prefix
    /\ log' = <<Call(op, data, addr, tag, s, r)>>
    /\ UNCHANGED <<args, is_open, baudrate, waitcounter, reply, exitcode>>

UnitTransmit ==
    /\ pc = "unit"
    /\ \E data \in Payloads, s \in Replies :
          UnitDone("transmit", data, 0, NoDamage, s, NoSelf,
                   transmit(data, <<>>, s, TIMEOUT_SHORT))

\* receive() on the frame of a payload as the device sends it, damaged or not
UnitReceive ==
    /\ pc = "unit"
    /\ \E p \in Payloads \cup StallPayloads, d \in Damage :
          UnitDone("receive", p, 0, d, Damaged(Encode(STC_RX_CODE, p), d), NoSelf,
                   [written |-> <<>>]
                       @@ receive(Damaged(Encode(STC_RX_CODE, p), d), TIMEOUT_SHORT))

\* the frame of a payload and a direction code as the round trip feeds it to
\* receive(): for the host's code the block transmit writes (t what transmit did)
RoundTripFrame(code, p, t) ==
    IF code = STC_RX_CODE THEN Encode(STC_RX_CODE, p)
    ELSE IF t.written = <<>> THEN <<>> ELSE t.written[1]

RoundTripResult(code, t, s) ==
    IF code = STC_TX_CODE /\ t.written = <<>> THEN t
    ELSE [written |-> <<>>] @@ receive(s, TIMEOUT_SHORT)

RoundTrip(code, p, t) ==
    UnitDone("roundtrip", p, 0, [m |-> "code", k |-> code], RoundTripFrame(code, p, t), NoSelf,
             RoundTripResult(code, t, RoundTripFrame(code, p, t)))

UnitRoundTrip ==
    /\ pc = "unit"
    /\ \E code \in {STC_TX_CODE, STC_RX_CODE}, p \in Payloads :
          RoundTrip(code, p, transmit(p, <<>>, <<>>, TIMEOUT_SHORT))

UnitSetBaud ==
    /\ pc = "unit"
    /\ \E d \in UnitDevices, v \in UnitVersions, s \in Replies \cup SecondChances :
          UnitDone("setbaud", <<>>, 0, NoDamage, s, Session(d, v),
                   setbaud(Session(d, v).fosc, <<>>, s, TIMEOUT_SHORT))

UnitCheckBaud ==
    /\ pc = "unit"
    /\ \E d \in UnitDevices, v \in UnitVersions, s \in Replies \cup SecondChances :
          UnitDone("checkbaud", <<>>, 0, NoDamage, s, Session(d, v),
                   checkbaud(Session(d, v).chipversion, <<>>, s, TIMEOUT_SHORT))

UnitErase ==
    /\ pc = "unit"
    /\ \E d \in UnitDevices, v \in UnitVersions, s \in Replies \cup SecondChances :
          UnitDone("erase", <<>>, 0, NoDamage, s, Session(d, v),
                   erase(<<>>, s, TIMEOUT_SHORT))

UnitWriteFlash ==
    /\ pc = "unit"
    /\ \E d \in UnitDevices, addr \in UnitAddrs, data \in UnitData,
          s \in Replies \cup SecondChances :
          UnitDone("writeflash", data, addr, NoDamage, s, Session(d, \H72),
                   writeflash(Session(d, \H72).flash_size, addr, data, <<>>, s,
                              TIMEOUT_SHORT))

NextUnit ==
    \/ UnitTransmit
    \/ UnitReceive
    \/ UnitRoundTrip
    \/ UnitSetBaud
    \/ UnitCheckBaud
    \/ UnitErase
    \/ UnitWriteFlash

SpecUnit == InitUnit /\ [][NextUnit]_vars

----------------------------------------------------------------------------
(* Programmer.identify *)

E_TIMEOUT     == "Timeout, failed to connect to MCU"
E_UNSUPPORTED == "Unsupported chip (ID: 0x%04x)"
E_CONNECT     == "Failed to connect to USB-to-serial converter"
E_FILE        == "FileNotFoundError"

\* "int.from_bytes(reply[20:22], byteorder='big')"
ChipId(r) == FromBytes(SubSeq(r, 21, 22))

\* the lookup leaving the last entry visited in self.device when none matches
FindDeviceLastVisited(chipid) ==
    IF \A d \in 1..Len(DEVICES) : DEVICES[d].id # chipid THEN Len(DEVICES)
    ELSE CHOOSE d \in 1..Len(DEVICES) : DEVICES[d].id = chipid

\* the index of the entry the loop over DEVICES leaves in self.device (the last
\* one with the id), 0 for None
FindDevice(chipid) ==
    IF \A d \in 1..Len(DEVICES) : DEVICES[d].id # chipid THEN 0
    ELSE CHOOSE d \in 1..Len(DEVICES) :
            /\ DEVICES[d].id = chipid
            /\ \A e \in (d + 1)..Len(DEVICES) : DEVICES[e].id # chipid

\* '%d.%d.%d%c' % (chipversion >> 4, chipversion & 0x0f, chipminor & 0x0f, chipstepping)
VerStr(chipversion, chipminor, chipstepping) ==
    <<chipversion \div 16, chipversion % 16, chipminor % 16, chipstepping>>

\* the attributes read one byte early (offsets 16, 17, 21 for 17, 18, 22)
IdentifiedOneEarly(r, d) ==
    [chipid |-> ChipId(r), chipname |-> DEVICES[d].name,
     flash_size |-> DEVICES[d].flash_size, chipversion |-> r[17],
     chipstepping |-> r[18], chipminor |-> r[22], fosc |-> FromBytes(SubSeq(r, 2, 5))]

\* the attributes identify sets from reply r of at least 23 bytes and entry d
Identified(r, d) ==
    [chipid |-> ChipId(r), chipname |-> DEVICES[d].name,
     flash_size |-> DEVICES[d].flash_size, chipversion |-> r[18],
     chipstepping |-> r[19], chipminor |-> r[23], fosc |-> FromBytes(SubSeq(r, 2, 5))]

----------------------------------------------------------------------------
(* What the device sends during the handshake *)

\* an identification payload of n >= 23 bytes: oscillator frequency 24000000 at
\* [1:5), version at 17, stepping 'A' at 18, chip id at [20:22), minor at 22,
\* every other byte telling its own offset
IdentPayload(n, chipid, version) ==
    [i \in 1..n |->
        CASE i = 2  -> \H01
          [] i = 3  -> \H6E
          [] i = 4  -> \H36
          [] i = 5  -> \H00
          [] i = 18 -> version
          [] i = 19 -> \H41
          [] i = 21 -> chipid \div 256
          [] i = 22 -> chipid % 256
          [] i = 23 -> \H03
          [] OTHER  -> 128 + i]

\* chip ids and version bytes of the devices that answer: first, middle and last
\* entries of the catalog, and two ids the catalog does not hold
IdentChips == {<<\HF721, \H71>>, <<\HF751, \H72>>, <<\HF752, \H72>>, <<\HF7A7, \H71>>,
               <<\HF758, \H72>>, <<\H0000, \H71>>}

IdentReplies ==
    {Encode(STC_RX_CODE, IdentPayload(23, c[1], c[2])) : c \in IdentChips}
        \cup {Encode(STC_RX_CODE, IdentPayload(24, \HF752, \H71)),
              Encode(STC_RX_CODE, SubSeq(IdentPayload(23, \HF752, \H72), 1, 22)),
              Encode(STC_RX_CODE, <<>>)}
        \cup {Damaged(Encode(STC_RX_CODE, IdentPayload(23, \HF752, \H72)), d) :
                d \in ReplyDamage \ {[m |-> "silence", k |-> 0]}}

\* before the device is powered: nothing, a byte of line noise, or a byte of
\* noise with a stray PREFIX byte behind it
Noise == {<<>>, <<\H00>>, <<\H00, \H46>>}

\* the probes (counted from 1) after which the device is powered and answers
AnswerAt == {1, 2, STC_WAIT * 100}

\* firmware images: empty, small, beyond the smallest flash, with a byte sum
\* beyond 16 bits, and of 4096 bytes with a small and a large byte sum
Images == {<<>>, <<\H02, \H00, \H10>>, Fill(2049, \H00), Fill(257, \HFF),
           Fill(4096, \H01), Fill(4096, \HFF)}

----------------------------------------------------------------------------
(* _main *)

Init ==
    /\ pc = "start"
    /\ args = NoArgs
    /\ is_open = FALSE
    /\ baudrate = STC_BAUD
    /\ timeout = TIMEOUT_SHORT
    /\ rx = <<>>
    /\ tx = <<>>
    /\ waitcounter = 0
    /\ reply = None
    /\ self = NoSelf
    /\ err = ""
    /\ exitcode = Running
    /\ sawPrefix = FALSE
    /\ log = <<>>

\* the handler leaving without isp.close()
FailWithoutClose(e) ==
    /\ err' = e
    /\ is_open' = is_open
    /\ exitcode' = 1
    /\ pc' = "done"

\* "except Exception as ex: ...; isp.close(); sys.exit(1)"
Fail(e) ==
    /\ err' = e
    /\ is_open' = FALSE
    /\ exitcode' = 1
    /\ pc' = "done"

\* parse_args, and "No arguments - no action!"
ParseArgs ==
    /\ pc = "start"
    /\ \E e \in BOOLEAN, f \in {None, <<"firmware.bin">>} :
          /\ args' = [erase |-> e, flash |-> f, readable |-> TRUE]
          /\ IF ~e /\ f = None
             THEN pc' = "done" /\ exitcode' = 0
             ELSE pc' = "connect" /\ exitcode' = exitcode
    /\ UNCHANGED <<is_open, baudrate, timeout, rx, tx, waitcounter, reply, self, err,
                   sawPrefix, log>>

\* isp = Programmer(args.port): open() succeeds or the run ends with status 1
Connect ==
    /\ pc = "connect"
    /\ \E ok \in BOOLEAN :
          IF ok
          THEN is_open' = TRUE /\ pc' = "identify" /\ UNCHANGED <<err, exitcode>>
          ELSE is_open' = FALSE /\ pc' = "done" /\ err' = E_CONNECT /\ exitcode' = 1
    /\ UNCHANGED <<args, baudrate, timeout, rx, tx, waitcounter, reply, self, sawPrefix,
                   log>>

\* identify, up to its loop: reset_input_buffer, waitcounter, reply
IdentifyBegin ==
    /\ pc = "identify"
    /\ rx' = <<>>
    /\ waitcounter' = STC_WAIT * 100
    /\ reply' = None
    /\ pc' = "identify_loop"
    /\ UNCHANGED <<args, is_open, baudrate, timeout, tx, self, err, exitcode, sawPrefix,
                   log>>

\* the loop running one probe more ("waitcounter >= 0")
LoopConditionInclusive == waitcounter >= 0 /\ reply = None

\* "while (waitcounter > 0) and (reply is None)"
LoopCondition == waitcounter > 0 /\ reply = None

\* the record of identify in the log: what it returned or raised
IdentifyCall(s, kind, data, e, n) ==
    [op |-> "identify", data |-> <<>>, addr |-> 0, tag |-> NoDamage, stream |-> s,
     kind |-> kind, out |-> data, err |-> e, ntx |-> n]

\* one iteration of identify's loop, r what receive() did after the write
IdentifyProbed(s, r) ==
    /\ tx' = Append(tx, <<STC_SYNCH>>)
    /\ rx' = r.rest
    /\ timeout' = r.timeout
    /\ sawPrefix' = (sawPrefix \/ r.prefix)
    /\ IF r.kind = "error"
       THEN /\ Fail(r.err)
            /\ log' = Append(log, IdentifyCall(s, "error", <<>>, r.err, Len(tx) + 1))
            /\ UNCHANGED <<waitcounter, reply>>
       ELSE /\ reply' = IF r.kind = "none" THEN None ELSE r.data
            /\ waitcounter' = waitcounter - 1
            /\ UNCHANGED <<pc, is_open, err, exitcode, log>>
    /\ UNCHANGED <<args, baudrate, self>>

IdentifyProbe ==
    /\ pc = "identify_loop"
    /\ LoopCondition
    /\ \E s \in IF Len(tx) + 1 \in AnswerAt THEN IdentReplies \cup Noise ELSE Noise :
          IdentifyProbed(s, receive(rx \o s, timeout))

\* identify after its loop: the timeout, the catalog lookup, the attributes
IdentifyFinish ==
    /\ pc = "identify_loop"
    /\ ~LoopCondition
    /\ IF reply = None \/ Len(reply) < 23
       THEN /\ Fail(E_TIMEOUT)
            /\ self' = self
            /\ log' = Append(log, IdentifyCall(<<>>, "error", <<>>, E_TIMEOUT, Len(tx)))
       ELSE IF FindDevice(ChipId(reply)) = 0
       THEN /\ Fail(E_UNSUPPORTED)
            /\ self' = [self EXCEPT !.chipid = ChipId(reply)]
            /\ log' = Append(log, IdentifyCall(<<>>, "error", <<>>, E_UNSUPPORTED, Len(tx)))
       ELSE /\ self' = Identified(reply, FindDevice(ChipId(reply)))
            /\ pc' = "setbaud"
            /\ log' = Append(log, IdentifyCall(<<>>, "ok", reply, "", Len(tx)))
            /\ UNCHANGED <<is_open, err, exitcode>>
    /\ UNCHANGED <<args, baudrate, timeout, rx, tx, waitcounter, reply, sawPrefix>>

\* the commands with checkbaud setting the transport to the rate the divisor of
\* setbaud gives, STC_FUSER / (4 * (65536 - count))
CommandedSwitching(op, data, s, r, next) ==
    /\ tx' = tx \o r.written
    /\ rx' = r.rest
    /\ timeout' = r.timeout
    /\ sawPrefix' = (sawPrefix \/ r.prefix)
    /\ log' = Append(log, Call(op, data, 0, NoDamage, s, r))
    /\ baudrate' = IF op = "checkbaud" THEN STC_FUSER \div (4 * (65536 - BaudCount))
                   ELSE baudrate
    /\ IF r.kind = "error"
       THEN Fail(r.err)
       ELSE pc' = next /\ UNCHANGED <<is_open, err, exitcode>>
    /\ UNCHANGED <<args, waitcounter, reply, self>>

\* the commands with a rejected reply only reported, the flow going on
CommandedIgnoringRejection(op, data, s, r, next) ==
    /\ tx' = tx \o r.written
    /\ rx' = r.rest
    /\ timeout' = r.timeout
    /\ sawPrefix' = (sawPrefix \/ r.prefix)
    /\ log' = Append(log, Call(op, data, 0, NoDamage, s, r))
    /\ IF r.kind = "error" /\ r.err \notin {E_BAUD_SET, E_BAUD_CHECK, E_ERASE, E_WRITE}
       THEN Fail(r.err)
       ELSE pc' = next /\ UNCHANGED <<is_open, err, exitcode>>
    /\ UNCHANGED <<args, baudrate, waitcounter, reply, self>>

\* the commands with setbaud recording the frequency it programs in the session
CommandedRecordingFosc(op, data, s, r, next) ==
    /\ tx' = tx \o r.written
    /\ rx' = r.rest
    /\ timeout' = r.timeout
    /\ sawPrefix' = (sawPrefix \/ r.prefix)
    /\ log' = Append(log, Call(op, data, 0, NoDamage, s, r))
    /\ self' = IF op = "setbaud" THEN [self EXCEPT !.fosc = STC_FUSER + 1] ELSE self
    /\ IF r.kind = "error"
       THEN Fail(r.err)
       ELSE pc' = next /\ UNCHANGED <<is_open, err, exitcode>>
    /\ UNCHANGED <<args, baudrate, waitcounter, reply>>

\* a command method, answered with stream s, did r: _main goes on to next or
\* its exception handler ends the run
Commanded(op, data, s, r, next) ==
    /\ tx' = tx \o r.written
    /\ rx' = r.rest
    /\ timeout' = r.timeout
    /\ sawPrefix' = (sawPrefix \/ r.prefix)
    /\ log' = Append(log, Call(op, data, 0, NoDamage, s, r))
    /\ IF r.kind = "error"
       THEN Fail(r.err)
       ELSE pc' = next /\ UNCHANGED <<is_open, err, exitcode>>
    /\ UNCHANGED <<args, baudrate, waitcounter, reply, self>>

\* the erase step taken only for the erase flag ("if args.erase:")
AfterCheckBaudFlagOnly(a) ==
    IF a.erase THEN "erase" ELSE IF a.flash # None THEN "flash" ELSE "close"

\* "if (args.erase) or (args.flash is not None):", else on to the next "if"
AfterCheckBaud(a) == IF a.erase \/ a.flash # None THEN "erase" ELSE "close"

\* "if args.flash is not None:"
AfterErase(a) == IF a.flash # None THEN "flash" ELSE "close"

MainSetBaud ==
    /\ pc = "setbaud"
    /\ \E s \in Replies :
          Commanded("setbaud", <<>>, s, setbaud(self.fosc, rx, s, timeout), "checkbaud")

MainCheckBaud ==
    /\ pc = "checkbaud"
    /\ \E s \in Replies :
          Commanded("checkbaud", <<>>, s, checkbaud(self.chipversion, rx, s, timeout),
                    AfterCheckBaud(args))

MainErase ==
    /\ pc = "erase"
    /\ \E s \in Replies :
          Commanded("erase", <<>>, s, erase(rx, s, timeout),
                    AfterErase(args))

\* "with open(args.flash, 'rb') as f: data = f.read()", then writeflash(0, data)
MainWriteFlash ==
    /\ pc = "flash"
    /\ \/ /\ Fail(E_FILE)
          /\ args' = [args EXCEPT !.readable = FALSE]
          /\ UNCHANGED <<baudrate, timeout, rx, tx, waitcounter, reply, self, sawPrefix,
                         log>>
       \/ \E data \in Images, s \in Replies :
             Commanded("writeflash", data, s,
                       writeflash(self.flash_size, 0, data, rx, s, timeout), "close")

\* isp.close(), 'DONE.', sys.exit(0)
MainClose ==
    /\ pc = "close"
    /\ is_open' = FALSE
    /\ exitcode' = 0
    /\ pc' = "done"
    /\ UNCHANGED <<args, baudrate, timeout, rx, tx, waitcounter, reply, self, err,
                   sawPrefix, log>>

Next ==
    \/ ParseArgs
    \/ Connect
    \/ IdentifyBegin
    \/ IdentifyProbe
    \/ IdentifyFinish
    \/ MainSetBaud
    \/ MainCheckBaud
    \/ MainErase
    \/ MainWriteFlash
    \/ MainClose

Spec == Init /\ [][Next]_vars

----------------------------------------------------------------------------
(* Claims about the frame codec and the capacity check, under SpecUnit *)

\* the call SpecUnit made, once it returned
Returns(op) == pc = "returned" /\ log[1].op = op

\* the two checksum bytes of a written block, as a 16-bit value
BlockChecksum(b) == 256 * b[Len(b) - 2] + b[Len(b) - 1]

\* C1: for every payload, transmit writes a frame whose 16-bit checksum is
\* (TX_CODE + high(size) + low(size) + sum of the payload) mod 65536, size =
\* len(payload) + 6, and never fails because the un-reduced sum exceeds 16 bits.
\* The code converts the un-reduced sum with to_bytes(2), which raises.
C1_TransmitChecksumMod65536 ==
    Returns("transmit") =>
        /\ err # E_OVERFLOW
        /\ Len(tx) = 1
        /\ BlockChecksum(tx[1]) =
              (\H6A + ((Len(log[1].data) + 6) \div 256) + ((Len(log[1].data) + 6) % 256)
                  + Sum(log[1].data)) % 65536

\* C2: for every payload P, transmit writes the single sequence
\* [0x46, 0xB9, 0x6A, size_high, size_low, P..., checksum_high, checksum_low, 0x16],
\* of length len(P) + 8, with P unchanged at offsets 5 .. 5 + len(P) - 1.
C2_TransmitLayout ==
    Returns("transmit") =>
        /\ Len(tx) = 1
        /\ Len(tx[1]) = Len(log[1].data) + 8
        /\ SubSeq(tx[1], 1, 5) = <<\H46, \HB9, \H6A, (Len(log[1].data) + 6) \div 256,
                                   (Len(log[1].data) + 6) % 256>>
        /\ SubSeq(tx[1], 6, 5 + Len(log[1].data)) = log[1].data
        /\ tx[1][Len(tx[1])] = \H16

\* C3 as stated: for both direction codes, decoding the encoded frame of P returns P.
C3_RoundTripBothCodes ==
    Returns("roundtrip") => log[1].kind = "data" /\ log[1].out = log[1].data

\* C3 as amended: the frame of P with the device's code 0x68 decodes to exactly P,
\* whatever the byte sum of P; with the host's code 0x6A receive raises the
\* prefix failure (or transmit wrote no frame to feed back).
C3_RoundTripRxOnly ==
    Returns("roundtrip") =>
        IF log[1].tag.k = \H68
        THEN log[1].kind = "data" /\ log[1].out = log[1].data /\ rx = <<>>
        ELSE /\ log[1].kind = "error"
             /\ log[1].out = <<>>
             /\ \/ log[1].err = E_PREFIX /\ log[1].stream # <<>>
                \/ log[1].err = E_OVERFLOW /\ log[1].stream = <<>>

\* the round trip of a payload whose checksum sum exceeds 16 bits, through code 0x68
C3_Witness ==
    /\ Returns("roundtrip")
    /\ log[1].tag.k = \H68
    /\ \H68 + Sum(log[1].data) > 65535
    /\ log[1].out = log[1].data

\* the bytes a call consumed from stream s, the timeouts left out
Consumed(s, rest) == SelectSeq(SubSeq(s, 1, Len(s) - Len(rest)), LAMBDA b : b # GAP)

\* bytes c form a frame that passes every check and carries payload out: the
\* marker bytes, a size field of ls bytes, out, a checksum field of lc bytes that
\* equals the checksum over (RX_CODE, size bytes, out), and the SUFFIX
PassesChecks(c, out, ls, lc) ==
    /\ Len(c) = 3 + ls + Len(out) + lc + 1
    /\ c[1] = \H46 /\ c[2] = \HB9 /\ c[3] = \H68
    /\ SubSeq(c, 4 + ls, 3 + ls + Len(out)) = out
    /\ FromBytes(SubSeq(c, 4 + ls + Len(out), 3 + ls + Len(out) + lc))
          = (\H68 + (FromBytes(SubSeq(c, 4, 3 + ls)) \div 256)
                + (FromBytes(SubSeq(c, 4, 3 + ls)) % 256) + Sum(out)) % 65536
    /\ c[Len(c)] = \H16

\* C4: receive returns a payload only when every check passes (second and third
\* bytes, checksum over code, size bytes and payload, suffix), and a valid frame
\* with one bit of its checksum field flipped is rejected with the checksum
\* failure, no payload returned.
C4_ReceiveChecks ==
    Returns("receive") =>
        /\ log[1].kind = "data" =>
              \E ls \in 0..2, lc \in 0..2 :
                  PassesChecks(Consumed(log[1].stream, rx), log[1].out, ls, lc)
        /\ log[1].tag.m = "flip" =>
              log[1].kind = "error" /\ log[1].err = E_CHECKSUM /\ log[1].out = <<>>

\* a flip of the high checksum byte's lowest bit, rejected
C4_Witness ==
    /\ Returns("receive")
    /\ log[1].tag = [m |-> "flip", k |-> 9]
    /\ Len(log[1].data) = 2
    /\ log[1].err = E_CHECKSUM

\* C5: writeflash raises the capacity failure whenever address + len(data) >
\* flash_size, writing nothing to the transport, and the capacity check does not
\* fail when address + len(data) <= flash_size.
C5_Capacity ==
    Returns("writeflash") =>
        IF log[1].addr + Len(log[1].data) > self.flash_size
        THEN log[1].kind = "error" /\ err = E_MEMORY /\ tx = <<>> /\ log[1].ntx = 0
        ELSE err # E_MEMORY

\* a write of two bytes at the last address of a 2048-byte flash, refused
C5_Witness ==
    /\ Returns("writeflash")
    /\ self.flash_size = 2048 /\ log[1].addr = 2047 /\ Len(log[1].data) = 2
    /\ err = E_MEMORY /\ tx = <<>>

----------------------------------------------------------------------------
(* Claims about the handshake and the commands *)

\* every block written so far is a single SYNCH byte
OnlyProbes == \A i \in 1..Len(tx) : tx[i] = <<\H7F>>

\* C6: when no PREFIX byte ever arrives, identify writes exactly wait_seconds x
\* 100 = 1000 SYNCH bytes, one per iteration, then stops with the handshake
\* timeout; it never writes more probes than that and its loop is bounded.
C6_ProbeBudget ==
    /\ Cardinality({i \in 1..Len(tx) : tx[i] = <<\H7F>>}) <= 1000
    /\ pc = "identify_loop" =>
          waitcounter >= 0 /\ Len(tx) + waitcounter = 1000 /\ OnlyProbes
    /\ pc = "identify_loop" /\ ~sawPrefix /\ Len(tx) < 1000 => reply = None
    /\ pc = "done" /\ log # <<>> /\ ~sawPrefix =>
          /\ Len(tx) = 1000 /\ OnlyProbes
          /\ err = E_TIMEOUT /\ exitcode = 1 /\ ~is_open
          /\ Len(log) = 1 /\ log[1].ntx = 1000

\* the run that ended with the timeout after 1000 probes, no PREFIX byte seen
C6_Witness ==
    pc = "done" /\ ~sawPrefix /\ err = E_TIMEOUT /\ Len(tx) = 1000 /\ waitcounter = 0

\* identify returned (it is the first call of the run)
IdentifyReturned == log # <<>> /\ log[1].op = "identify" /\ log[1].kind = "ok"

\* C7: from a valid reply of at least 23 bytes identify sets chip id = bytes
\* [20:22) big-endian, oscillator frequency = bytes [1:5) big-endian, version =
\* byte 17, stepping = byte 18, minor = byte 22, and name and flash_size from the
\* one catalog entry with that id; id 0xF752 gives "STC8G1K04-20/16P" and 4096.
C7_IdentifyFields ==
    IdentifyReturned =>
        /\ Len(reply) >= 23
        /\ self.chipid = 256 * reply[21] + reply[22]
        /\ self.fosc = 16777216 * reply[2] + 65536 * reply[3] + 256 * reply[4] + reply[5]
        /\ self.chipversion = reply[18]
        /\ self.chipstepping = reply[19]
        /\ self.chipminor = reply[23]
        /\ Cardinality({d \in 1..Len(DEVICES) : DEVICES[d].id = self.chipid}) = 1
        /\ \E d \in 1..Len(DEVICES) :
              /\ DEVICES[d].id = self.chipid
              /\ self.chipname = DEVICES[d].name
              /\ self.flash_size = DEVICES[d].flash_size
        /\ self.chipid = \HF752 =>
              self.chipname = "STC8G1K04-20/16P" /\ self.flash_size = 4096

\* a 23-byte reply carrying chip id 0xF752, identified
C7_Witness ==
    /\ IdentifyReturned
    /\ Len(reply) = 23 /\ reply[21] = \HF7 /\ reply[22] = \H52
    /\ self.chipname = "STC8G1K04-20/16P" /\ self.flash_size = 4096
    /\ self.chipversion = \H72 /\ self.fosc = 24000000

\* identify's loop left a reply of at least 23 bytes whose id no entry has
UnknownChipReply ==
    /\ pc # "identify_loop"
    /\ reply # None
    /\ Len(reply) >= 23
    /\ \A d \in 1..Len(DEVICES) : DEVICES[d].id # 256 * reply[21] + reply[22]

\* C8: when the chip id of a valid reply of 23 or more bytes is no catalog entry's
\* id, identify fails with the unsupported-chip failure and no BAUD_SET,
\* BAUD_CHECK, ERASE or WRITE frame is written in that run.
C8_UnsupportedChip ==
    UnknownChipReply =>
        /\ pc = "done" /\ exitcode = 1 /\ ~is_open
        /\ err = E_UNSUPPORTED
        /\ self.chipid = 256 * reply[21] + reply[22]
        /\ OnlyProbes
        /\ Len(log) = 1 /\ log[1].op = "identify" /\ log[1].kind = "error"

\* the run of a device answering with id 0xF758
C8_Witness ==
    UnknownChipReply /\ self.chipid = \HF758 /\ err = E_UNSUPPORTED /\ Len(tx) = 2

\* C9: checkbaud sends the payload [0x05, 0, 0, BREAK, BREAK XOR 0xFF] exactly when
\* the version byte is >= 0x72, and the bare [0x05] otherwise; extended at 0x72,
\* bare at 0x71.
C9_CheckBaudPayload ==
    Returns("checkbaud") =>
        /\ Len(tx) = 1
        /\ tx[1] = Encode(\H6A, IF self.chipversion >= \H72
                                THEN <<\H05, 0, 0, \H5A, \HA5>> ELSE <<\H05>>)
        /\ self.chipversion = \H72 => SubSeq(tx[1], 6, Len(tx[1]) - 3) = <<\H05, 0, 0, \H5A, \HA5>>
        /\ self.chipversion = \H71 => SubSeq(tx[1], 6, Len(tx[1]) - 3) = <<\H05>>

\* the extended payload sent at version 0x72
C9_Witness ==
    /\ Returns("checkbaud")
    /\ self.chipversion = \H72
    /\ Len(tx) = 1 /\ Len(tx[1]) = 13 /\ tx[1][9] = \H5A

\* C10: with flash_size 16384, address 0 and 4096 bytes of data of any values,
\* erase and then writeflash both succeed when the device answers with valid
\* frames whose first payload bytes are 0x03 and 0x02, the erase frame and the
\* write frame written. With data of a large byte sum writeflash raises in
\* transmit (C1) and writes nothing.
C10_EndToEnd ==
    \A i \in 2..Len(log) :
        /\ log[i - 1].op = "erase" /\ log[i - 1].stream = Encode(\H68, <<\H03>>)
        /\ log[i].op = "writeflash" /\ log[i].stream = Encode(\H68, <<\H02>>)
        /\ self.flash_size = 16384 /\ log[i].addr = 0 /\ Len(log[i].data) = 4096
        => /\ log[i - 1].kind = "ok" /\ log[i - 1].ntx = 1
           /\ log[i].kind = "ok" /\ log[i].ntx >= 1

----------------------------------------------------------------------------
(* Claims about the replies to commands, under SpecUnit *)

\* the four commands, the reply byte each looks for and the failure of each
Commands == {"setbaud", "checkbaud", "erase", "writeflash"}

ExpectedByte(op) ==
    CASE op = "setbaud"    -> \H01
      [] op = "checkbaud"  -> \H05
      [] op = "erase"      -> \H03
      [] op = "writeflash" -> \H02

Rejection(op) ==
    CASE op = "setbaud"    -> E_BAUD_SET
      [] op = "checkbaud"  -> E_BAUD_CHECK
      [] op = "erase"      -> E_ERASE
      [] op = "writeflash" -> E_WRITE

\* the device answered the first call with the intact frame of payload p
AnsweredWith(p) == log[1].stream = Encode(\H68, p)

\* C11: a command whose frame was sent succeeds exactly when the first byte of the
\* validated reply payload is its expected value (0x01 SetBaud, 0x05 CheckBaud,
\* 0x03 Erase, the literal 0x02 WriteFlash) and is rejected otherwise; a
\* WriteFlash reply starting with the request code 0x22 is a failure, and an
\* empty or absent reply is always a failure.
C11_ReplyCodes ==
    \A op \in Commands :
        Returns(op) /\ log[1].ntx = 1 =>
            /\ log[1].kind = "ok" <=>
                  \E p \in ReplyPayloads :
                      AnsweredWith(p) /\ Len(p) >= 1 /\ p[1] = ExpectedByte(op)
            /\ \A p \in ReplyPayloads :
                  AnsweredWith(p) /\ Len(p) >= 1 /\ p[1] # ExpectedByte(op) =>
                      log[1].kind = "error" /\ log[1].err = Rejection(op)
            /\ AnsweredWith(<<>>) \/ log[1].stream = <<>> =>
                  log[1].kind = "error" /\ log[1].err = E_RESPONSE
            /\ op = "writeflash" /\ AnsweredWith(<<\H22>>) =>
                  log[1].kind = "error" /\ log[1].err = E_WRITE

\* a write answered with the echo of its request code, rejected
C11_Witness ==
    /\ Returns("writeflash")
    /\ log[1].ntx = 1
    /\ AnsweredWith(<<\H22>>)
    /\ log[1].kind = "error" /\ err = E_WRITE

----------------------------------------------------------------------------
(* Claims about the command-line flow, under Spec *)

\* block b is a frame whose payload starts with command byte c
IsCommand(b, c) == Len(b) >= 9 /\ b[6] = c

\* the last call made
Last == log[Len(log)]

\* C12: with neither the erase flag nor a flash file the run is a no-op that exits
\* with status 0, the transport never opened and no byte written; when a flash
\* write is requested the ERASE command is sent, and has succeeded, before the
\* WRITE command is sent, even without the erase flag.
C12_CommandLineFlow ==
    /\ pc # "start" /\ ~args.erase /\ args.flash = None =>
          /\ pc = "done" /\ exitcode = 0 /\ err = ""
          /\ ~is_open /\ tx = <<>> /\ log = <<>>
    /\ log # <<>> /\ Last.op = "checkbaud" /\ Last.kind = "ok" /\ args.flash # None =>
          pc = "erase"
    /\ pc = "flash" => Last.op = "erase" /\ Last.kind = "ok"
    /\ \A i \in 1..Len(log) :
          log[i].op = "writeflash" =>
              /\ args.flash # None
              /\ i > 1 /\ log[i - 1].op = "erase"
              /\ log[i - 1].kind = "ok" /\ log[i - 1].ntx = 1
    /\ \A i \in 1..Len(tx) :
          IsCommand(tx[i], \H22) =>
              i > 1 /\ tx[i - 1] = Encode(\H6A, <<\H03, 0, 0, \H5A, \HA5>>)

\* a flash file without the erase flag: erased, then written
C12_Witness ==
    /\ ~args.erase /\ args.flash # None
    /\ Len(log) >= 2 /\ Last.op = "writeflash" /\ Last.kind = "ok"
    /\ IsCommand(tx[Len(tx)], \H22) /\ IsCommand(tx[Len(tx) - 1], \H03)
    /\ pc = "done" /\ exitcode = 0

IdentifyGaveUp ==
    /\ pc = "done" /\ log # <<>>
    /\ log[1].op = "identify" /\ log[1].kind = "error"
    /\ log[1].err \notin {E_PREFIX, E_CHECKSUM, E_SUFFIX, E_INDEX}

\* C14: identify's loop stops only when a frame of at least 23 payload bytes was
\* received or the iteration budget is exhausted, and the two failures differ:
\* exhaustion is the timeout failure, a valid frame of fewer than 23 payload bytes
\* a failure the caller can tell from the timeout. The code leaves the loop on any
\* frame and raises the timeout exception for the short one too.
C14_DistinctFailures ==
    /\ IdentifyGaveUp /\ err # E_UNSUPPORTED => waitcounter = 0 \/ Len(reply) >= 23
    /\ IdentifyGaveUp /\ reply = None => err = E_TIMEOUT
    /\ IdentifyGaveUp /\ reply # None /\ Len(reply) < 23 => err # E_TIMEOUT

\* the place of a written block in the flow: SYNCH probe 0, BAUD_SET 1,
\* BAUD_CHECK 2, ERASE 3, WRITE 4
Rank(b) ==
    CASE b = <<\H7F>>      -> 0
      [] IsCommand(b, \H01) -> 1
      [] IsCommand(b, \H05) -> 2
      [] IsCommand(b, \H03) -> 3
      [] IsCommand(b, \H22) -> 4
      [] OTHER              -> 5

\* call i was made and returned without raising
Succeeded(i, op) == Len(log) >= i /\ log[i].op = op /\ log[i].kind \in {"ok", "data"}

\* C15: frames reach the transport in the order SYNCH probes, BAUD_SET,
\* BAUD_CHECK, ERASE, WRITE, each step only after the one before succeeded: no
\* BAUD_SET before identify succeeded, BAUD_CHECK the very next frame after an
\* acknowledged BAUD_SET, no ERASE or WRITE unless BAUD_SET and BAUD_CHECK were
\* both acknowledged.
C15_FrameOrder ==
    /\ \A i \in 1..Len(tx) : Rank(tx[i]) \in 0..4
    /\ \A i \in 2..Len(tx) :
          \/ Rank(tx[i]) = 0 /\ Rank(tx[i - 1]) = 0
          \/ Rank(tx[i]) = Rank(tx[i - 1]) + 1
    /\ \A i \in 1..Len(tx) :
          /\ Rank(tx[i]) >= 1 => Succeeded(1, "identify")
          /\ Rank(tx[i]) >= 2 => Succeeded(2, "setbaud")
          /\ Rank(tx[i]) >= 3 => Succeeded(3, "checkbaud")
          /\ Rank(tx[i]) >= 4 => Succeeded(4, "erase")
          /\ Rank(tx[i]) = 1 /\ Succeeded(2, "setbaud") /\ pc # "checkbaud" =>
                i < Len(tx) /\ Rank(tx[i + 1]) = 2

\* a complete run: probes, then the four commands in order
C15_Witness ==
    /\ pc = "done" /\ exitcode = 0
    /\ Len(tx) >= 5
    /\ Rank(tx[Len(tx) - 4]) = 0
    /\ Rank(tx[Len(tx) - 3]) = 1 /\ Rank(tx[Len(tx) - 2]) = 2
    /\ Rank(tx[Len(tx) - 1]) = 3 /\ Rank(tx[Len(tx)]) = 4

\* the blocks written by the calls after identify, up to call i
RECURSIVE CommandWrites(_)
CommandWrites(i) == IF i <= 1 THEN 0 ELSE log[i].ntx + CommandWrites(i - 1)

\* C16: when identify, setbaud, checkbaud, erase or writeflash fails (timeout,
\* framing, checksum, unsupported device, rejected command, capacity), the
\* transport is closed before the process terminates and nothing is written
\* after the failure; a successful run ends with the transport closed too.
C16_ClosedOnExit ==
    /\ exitcode # Running <=> pc = "done"
    /\ exitcode # Running => ~is_open /\ exitcode \in {0, 1}
    /\ exitcode = 0 <=> pc = "done" /\ err = ""
    /\ \A i \in 1..Len(log) :
          log[i].kind = "error" =>
              /\ i = Len(log)
              /\ pc = "done" /\ exitcode = 1 /\ ~is_open
              /\ err = log[i].err
              /\ Len(tx) = log[1].ntx + CommandWrites(i)

\* a run ended by a rejected erase: port closed, status 1, probes and three frames
C16_Witness ==
    /\ pc = "done" /\ exitcode = 1 /\ ~is_open
    /\ Len(log) = 4 /\ Last.op = "erase" /\ Last.kind = "error" /\ err = E_ERASE
    /\ Len(tx) = log[1].ntx + 3

----------------------------------------------------------------------------
(* Claims about the single exchange of a command, under SpecUnit *)

\* C17 as stated: each of setbaud, checkbaud, erase and writeflash performs
\* exactly one transport write.
C17_ExactlyOneWrite ==
    \A op \in Commands : Returns(op) => Len(tx) = 1

\* writeflash raises before transmit writes: the capacity check, or a to_bytes
\* conversion (of the address or of the un-reduced parity)
FailsUnsent ==
    /\ log[1].op = "writeflash"
    /\ \/ Len(log[1].data) > self.flash_size - log[1].addr
       \/ log[1].addr > 65535
       \/ \H6A + ((Len(log[1].data) + 11) \div 256) + ((Len(log[1].data) + 11) % 256)
              + \H22 + (log[1].addr \div 256) + (log[1].addr % 256) + \H5A + \HA5
              + Sum(log[1].data) > 65535

\* C17 as amended: each command performs at most one transport write, exactly one
\* unless writeflash fails before sending (capacity exceeded, or the conversion
\* failure of transmit for a large byte sum), followed by one decode attempt, and
\* never retries: when the decode yields no frame or a framing failure the
\* command fails at once, writes nothing more and leaves a later frame unread.
C17_SingleExchange ==
    \A op \in Commands :
        Returns(op) =>
            /\ Len(tx) <= 1
            /\ Len(tx) = 0 <=> FailsUnsent
            /\ Len(tx) = 0 => log[1].kind = "error" /\ rx = <<>>
            /\ log[1].stream \in SecondChances /\ Len(tx) = 1 =>
                  /\ log[1].kind = "error"
                  /\ rx = SubSeq(log[1].stream, Len(log[1].stream) - 8, Len(log[1].stream))
                  /\ rx \in {Encode(\H68, <<c>>) : c \in {\H01, \H02, \H03, \H05}}

\* an erase answered with a damaged frame and then the intact acknowledgement:
\* failed after its one write, the acknowledgement unread
C17_Witness ==
    /\ Returns("erase")
    /\ log[1].stream = <<\H46, \HB9, \H68, 0, 7, \H03, 0, \H72, \H17>> \o Encode(\H68, <<\H03>>)
    /\ Len(tx) = 1
    /\ log[1].kind = "error" /\ err = E_SUFFIX
    /\ rx = Encode(\H68, <<\H03>>)

----------------------------------------------------------------------------
(* Claims about the read timeout and the session, under Spec *)

\* C18: when the first byte receive reads is absent or is not PREFIX, receive
\* reports "no frame" without an error, consumes no further byte and leaves the
\* read timeout as it is; the timeout is raised from the short polling value to the
\* long one only once a PREFIX byte was read, so every SYNCH probe of the handshake
\* loop is awaited with the short timeout, and it never returns to the short value.
C18_TimeoutAfterPrefix ==
    /\ [](/\ timeout \in {1, 100}
          /\ timeout = 100 <=> sawPrefix
          /\ pc = "identify_loop" /\ reply = None =>
                /\ timeout = 1 /\ err = "" /\ exitcode = Running
                /\ rx \in {<<>>, <<\H46>>})
    /\ [][/\ timeout = 100 => timeout' = 100
          /\ pc = "identify_loop" /\ Len(tx') = Len(tx) + 1 => timeout = 1
          /\ pc = "identify_loop" /\ Len(tx') = Len(tx) + 1 /\ ~sawPrefix' =>
                /\ timeout' = timeout /\ err' = "" /\ pc' = pc
                /\ reply' = None /\ Len(rx') <= 1]_vars

\* the loop still polling with the short timeout after a probe met a byte of
\* noise: the PREFIX byte behind the noise is still unread
C18_Witness ==
    /\ pc = "identify_loop" /\ reply = None
    /\ Len(tx) >= 2
    /\ rx = <<\H46>>
    /\ timeout = 1 /\ ~sawPrefix

\* C19: after a successful identify the session fields chip id, chip name, chip
\* version (major, minor, stepping), flash size and oscillator frequency are never
\* modified by setbaud, checkbaud, erase or writeflash, succeeding or failing; no
\* field but the baud rate may change after the handshake, and that one only in
\* setbaud or checkbaud (in the code it does not change at all, C13).
C19_SessionReadOnly ==
    [][IdentifyReturned =>
          /\ self' = self
          /\ reply' = reply
          /\ baudrate' # baudrate => pc \in {"setbaud", "checkbaud"}]_vars

\* the four commands done on the first catalog entry, the session as identified
C19_Witness ==
    /\ pc = "done" /\ exitcode = 0 /\ Len(log) = 5
    /\ Last.op = "writeflash" /\ Last.kind = "ok"
    /\ self = [chipid |-> \HF721, chipname |-> "STC8H1K16", flash_size |-> 16384,
               chipversion |-> \H71, chipstepping |-> \H41, chipminor |-> \H03,
               fosc |-> 24000000]

----------------------------------------------------------------------------
(* Claim about the length of a received payload, under SpecUnit *)

\* the size field receive read from stream s: its read(2) after the three
\* marker bytes
DeclaredSize(s) == FromBytes(Read(SubSeq(s, 4, Len(s)), 2).got)

\* C20: whenever receive returns a payload, the payload has exactly (declared
\* size - 6) bytes, the declared size being the size field received and at least
\* 6, also when a read returns fewer bytes than requested because of a timeout.
\* The code never compares len(data) with the size: a payload cut short by a
\* timeout, and the empty payload of a frame declaring a size below 6, are
\* returned.
C20_PayloadLength ==
    Returns("receive") /\ log[1].kind = "data" =>
        /\ DeclaredSize(log[1].stream) >= 6
        /\ Len(log[1].out) = DeclaredSize(log[1].stream) - 6

====
